---- MODULE Spec2Model ----
(***************************************************************************)
(* Model of azurerm/resource_arm_function_app.go: the Function App         *)
(* resource adapter (Create / Update / Read / Delete) and its expand and   *)
(* flatten helpers, run against a remote management API whose calls may    *)
(* fail and whose resource may be removed between two calls.               *)
(*                                                                         *)
(* Pass-through attributes that no handler branches on (location, tags,    *)
(* app_service_plan_id, enabled, https_only, client_affinity_enabled,      *)
(* default_hostname, outbound_ip_addresses) are not part of the state.     *)
(***************************************************************************)
EXTENDS Integers, Sequences, FiniteSets, TLC

VARIABLES
    d,                \* *schema.ResourceData: id, cfg (what d.Get returns), old (prior state, for d.HasChange)
    remote,           \* the Function App as the management API holds it
    pc,               \* position of the running handler
    op,               \* handler the host framework invoked ("none" when idle)
    calls,            \* remote calls issued by the running / last handler, in order
    appSettingsResp,  \* Read's local: the listing returned by ListApplicationSettings
    result,           \* what the last handler returned to the framework
    entry,            \* d as it was when the framework invoked the handler
    csPc, csInput, csDict, csOut   \* connection-string helpers applied to a drawn list

vars == <<d, remote, pc, op, calls, appSettingsResp, result, entry, csPc, csInput, csDict, csOut>>
mainVars == <<d, remote, pc, op, calls, appSettingsResp, result, entry>>
csVars == <<csPc, csInput, csDict, csOut>>

----------------------------------------------------------------------------
(* Bounds *)

MaxConn == 2          \* longest connection_string list drawn for the helper specification

----------------------------------------------------------------------------
(* Values *)

ImplicitKeys ==
    {"AzureWebJobsDashboard", "AzureWebJobsStorage", "FUNCTIONS_EXTENSION_VERSION",
     "WEBSITE_CONTENTSHARE", "WEBSITE_CONTENTAZUREFILECONNECTIONSTRING"}

SiteName == "app"
ResGroup == "rg"
SiteID == "/subscriptions/sub/resourceGroups/rg/providers/Microsoft.Web/sites/app"
ImportIDs == {SiteID, "not-a-resource-id"}

Versions == {"~1", "beta"}
StorageConn == "DefaultEndpointsProtocol=https;AccountName=sa"

EmptyMap == [k \in {} |-> ""]

\* user-declared app_settings; the last one uses the name of an implicit key
UserAppSettings ==
    { EmptyMap,
      [k \in {"FOO"} |-> "bar"],
      [k \in {"FOO", "AzureWebJobsStorage"} |-> IF k = "FOO" THEN "bar" ELSE "user-value"] }

\* listings an out-of-band edit can leave on the remote side
EditedAppSettings ==
    { [k \in ImplicitKeys \cup {"EXTRA"} |-> IF k = "EXTRA" THEN "edited" ELSE "remote-" \o k],
      [k \in {"AzureWebJobsStorage", "WEBSITE_CONTENTSHARE"} |-> "other"] }

SiteConfigBlock(a, u, w) ==
    [always_on |-> a, use_32_bit_worker_process |-> u, websockets_enabled |-> w]

UserSiteConfigs == { << >>, <<SiteConfigBlock(TRUE, TRUE, FALSE)>> }

ConnEntry(n, v, t) == [name |-> n, value |-> v, type |-> t]

CsNames == {"db", "cache"}
CsValues == {"Server=a", "Server=b"}
CsTypes == {"SQLAzure", "Custom"}
ConnEntries == { ConnEntry(n, v, t) : n \in CsNames, v \in CsValues, t \in CsTypes }

\* connection_string lists the lifecycle model declares (one with a repeated name)
UserConnLists ==
    { << >>,
      <<ConnEntry("db", "Server=a", "SQLAzure")>>,
      <<ConnEntry("db", "Server=a", "SQLAzure"), ConnEntry("db", "Server=b", "Custom")>> }

Configs ==
    [ name : {SiteName},
      version : Versions,
      storage_connection_string : {StorageConn},
      app_settings : UserAppSettings,
      site_config : UserSiteConfigs,
      connection_string : UserConnLists ]

\* zero values the framework reports for a resource that has no prior state
ZeroState ==
    [ name |-> "", version |-> "", storage_connection_string |-> "",
      app_settings |-> EmptyMap, site_config |-> << >>, connection_string |-> << >> ]

----------------------------------------------------------------------------
(* Errors *)

NoErr == [kind |-> "nil", msg |-> "", name |-> "", status |-> 0]

\* the error value a failed SDK call returns
RemoteErr(call, status) == [kind |-> "remote", msg |-> call, name |-> "", status |-> status]

\* fmt.Errorf(msg + " %q: %+v", name, err)
Errorf(msg, name, err) == [kind |-> "wrapped", msg |-> msg, name |-> name, status |-> err.status]

\* an error that does not come from a remote call
LocalErr(msg, name) == [kind |-> "local", msg |-> msg, name |-> name, status |-> 0]

----------------------------------------------------------------------------
(* Helpers of the resource, as the code computes them *)

\* map[k] = v on a Go map
MapSet(m, k, v) == [x \in DOMAIN m \cup {k} |-> IF x = k THEN v ELSE m[x]]

\* delete(m, k) on a Go map
MapDelete(m, k) == [x \in DOMAIN m \ {k} |-> m[x]]

\* m[k] on a Go map of strings: the zero value when the key is absent
MapGet(m, k) == IF k \in DOMAIN m THEN m[k] ELSE ""

\* utils.ResponseWasNotFound
ResponseWasNotFound(status) == status = 404

\* parseAzureResourceID: the resource group and the "sites" path segment of an ID
ParsesAsResourceID(id) == id = SiteID
parseAzureResourceID(id) == [ResourceGroup |-> ResGroup, sites |-> SiteName]

\* d.HasChange(key): the prior state and the declared value differ
HasChange(dd, key) == dd.old[key] # dd.cfg[key]

getBasicFunctionAppAppSettings(cfg) ==
    << [Name |-> "AzureWebJobsDashboard", Value |-> cfg.storage_connection_string],
       [Name |-> "AzureWebJobsStorage", Value |-> cfg.storage_connection_string],
       [Name |-> "FUNCTIONS_EXTENSION_VERSION", Value |-> cfg.version],
       [Name |-> "WEBSITE_CONTENTSHARE", Value |-> cfg.name \o "-content"],
       [Name |-> "WEBSITE_CONTENTAZUREFILECONNECTIONSTRING", Value |-> cfg.storage_connection_string] >>

\* expandAppServiceAppSettings: the declared app_settings as a string dictionary
expandAppServiceAppSettings(cfg) == [k \in DOMAIN cfg.app_settings |-> cfg.app_settings[k]]

\* for _, p := range pairs { output[*p.Name] = p.Value }
RECURSIVE SetPairs(_, _)
SetPairs(output, pairs) ==
    IF pairs = << >> THEN output
    ELSE SetPairs(MapSet(output, Head(pairs).Name, Head(pairs).Value), Tail(pairs))

\* a plausible slip: the declared settings are laid over the implicit ones
expandFunctionAppAppSettings_userWins(cfg) ==
    LET basic == SetPairs(EmptyMap, getBasicFunctionAppAppSettings(cfg))
        user == expandAppServiceAppSettings(cfg)
    IN [k \in DOMAIN basic \cup DOMAIN user |-> IF k \in DOMAIN user THEN user[k] ELSE basic[k]]

expandFunctionAppAppSettings(cfg) ==
    SetPairs(expandAppServiceAppSettings(cfg), getBasicFunctionAppAppSettings(cfg))

\* flattenAppServiceAppSettings: the listing as a map of plain strings
flattenAppServiceAppSettings(props) == [k \in DOMAIN props |-> props[k]]

\* a plausible slip: one of the five deletes is missing
StripImplicitAppSettings_missingOne(appSettings) ==
    MapDelete(MapDelete(MapDelete(MapDelete(appSettings,
        "AzureWebJobsDashboard"), "AzureWebJobsStorage"), "FUNCTIONS_EXTENSION_VERSION"),
        "WEBSITE_CONTENTAZUREFILECONNECTIONSTRING")

\* the five delete(appSettings, ...) statements of Read
StripImplicitAppSettings(appSettings) ==
    MapDelete(MapDelete(MapDelete(MapDelete(MapDelete(appSettings,
        "AzureWebJobsDashboard"), "AzureWebJobsStorage"), "FUNCTIONS_EXTENSION_VERSION"),
        "WEBSITE_CONTENTSHARE"), "WEBSITE_CONTENTAZUREFILECONNECTIONSTRING")

\* web.SiteConfig: a *bool field is << >> when nil and <<b>> when it points to b
NilSiteConfig == [AlwaysOn |-> << >>, Use32BitWorkerProcess |-> << >>, WebSocketsEnabled |-> << >>]

expandFunctionAppSiteConfig(cfg) ==
    IF Len(cfg.site_config) = 0 THEN NilSiteConfig
    ELSE LET config == cfg.site_config[1]
         IN [AlwaysOn |-> <<config.always_on>>,
             Use32BitWorkerProcess |-> <<config.use_32_bit_worker_process>>,
             WebSocketsEnabled |-> <<config.websockets_enabled>>]

\* input is << >> for a nil *web.SiteConfig and <<siteConfig>> otherwise
flattenFunctionAppSiteConfig(input) ==
    IF input = << >> THEN << >>
    ELSE LET sc == input[1]
             set == (IF sc.AlwaysOn # << >> THEN {"always_on"} ELSE {})
                    \cup (IF sc.Use32BitWorkerProcess # << >> THEN {"use_32_bit_worker_process"} ELSE {})
                    \cup (IF sc.WebSocketsEnabled # << >> THEN {"websockets_enabled"} ELSE {})
         IN << [k \in set |->
                  CASE k = "always_on" -> sc.AlwaysOn[1]
                    [] k = "use_32_bit_worker_process" -> sc.Use32BitWorkerProcess[1]
                    [] OTHER -> sc.WebSocketsEnabled[1]] >>

\* a plausible slip: the value is stored where the type belongs
expandFunctionAppConnectionStrings_noType(input) ==
    LET F[i \in 0..Len(input)] ==
            IF i = 0 THEN EmptyMap
            ELSE MapSet(F[i - 1], input[i].name, [Value |-> input[i].value, Type |-> "Custom"])
    IN F[Len(input)]

\* for _, v := range input { output[csName] = &pair{Value: csValue, Type: csType} }
expandFunctionAppConnectionStrings(input) ==
    LET F[i \in 0..Len(input)] ==
            IF i = 0 THEN EmptyMap
            ELSE MapSet(F[i - 1], input[i].name, [Value |-> input[i].value, Type |-> input[i].type])
    IN F[Len(input)]

\* one entry of the flattened list
flattenConnectionString(k, v) == [name |-> k, type |-> v.Type, value |-> v.Value]

\* flattenFunctionAppConnectionStrings ranges over a Go map: every order of
\* the keys is a possible result
flattenFunctionAppConnectionStrings(input) ==
    LET n == Cardinality(DOMAIN input)
        orders == { o \in [1..n -> DOMAIN input] : \A i, j \in 1..n : o[i] = o[j] => i = j }
    IN { [i \in 1..n |-> flattenConnectionString(o[i], input[o[i]])] : o \in orders }

----------------------------------------------------------------------------
(* The remote side *)

\* values the service gives a site configuration that a request leaves unset
DefaultRemoteSiteConfig ==
    [AlwaysOn |-> FALSE, Use32BitWorkerProcess |-> TRUE, WebSocketsEnabled |-> FALSE]

NoRemote ==
    [exists |-> FALSE, appSettings |-> EmptyMap, connStrings |-> EmptyMap,
     siteConfig |-> DefaultRemoteSiteConfig]

\* the service keeps its value for a field the request leaves nil
ApplySiteConfig(cur, sc) ==
    [AlwaysOn |-> IF sc.AlwaysOn = << >> THEN cur.AlwaysOn ELSE sc.AlwaysOn[1],
     Use32BitWorkerProcess |-> IF sc.Use32BitWorkerProcess = << >> THEN cur.Use32BitWorkerProcess
                               ELSE sc.Use32BitWorkerProcess[1],
     WebSocketsEnabled |-> IF sc.WebSocketsEnabled = << >> THEN cur.WebSocketsEnabled
                           ELSE sc.WebSocketsEnabled[1]]

\* the site a completed create-or-update leaves behind
CreatedSite(envelope) ==
    [exists |-> TRUE,
     appSettings |-> SetPairs(EmptyMap, envelope.AppSettings),
     connStrings |-> EmptyMap,
     siteConfig |-> ApplySiteConfig(DefaultRemoteSiteConfig, envelope.SiteConfig)]

\* the SiteConfig a get-configuration answers with
RemoteSiteConfigResponse(r) ==
    << [AlwaysOn |-> <<r.siteConfig.AlwaysOn>>,
        Use32BitWorkerProcess |-> <<r.siteConfig.Use32BitWorkerProcess>>,
        WebSocketsEnabled |-> <<r.siteConfig.WebSocketsEnabled>>] >>

\* statuses a call on the site can answer with: 200 success, 404 not found, 500 any other failure
SiteStatuses == IF remote.exists THEN {200, 500} ELSE {404, 500}

\* err of an SDK call that answered with status s
CallErr(call, s) == IF s = 200 THEN NoErr ELSE RemoteErr(call, s)

\* one entry of the call log: the call, what was sent, the status and what the answer carried
Call(name, arg, s, resp) == [call |-> name, arg |-> arg, status |-> s, resp |-> resp]

----------------------------------------------------------------------------
(* Resource data and the host framework *)

NoData == [id |-> "", cfg |-> ZeroState, old |-> ZeroState]
NoResult == [op |-> "none", err |-> NoErr]

Init ==
    /\ d = NoData
    /\ remote = NoRemote
    /\ pc = "idle"
    /\ op = "none"
    /\ calls = << >>
    /\ appSettingsResp = EmptyMap
    /\ result = NoResult
    /\ entry = NoData
    /\ csPc = "off"
    /\ csInput = << >>
    /\ csDict = EmptyMap
    /\ csOut = << >>

\* the handler returns e to the framework
Return(e) ==
    /\ pc' = "returned"
    /\ result' = [op |-> op, err |-> e]
    /\ UNCHANGED appSettingsResp

\* the framework invokes a handler
Invoke(handler, dd) ==
    /\ op' = handler
    /\ d' = dd
    /\ entry' = dd
    /\ calls' = << >>
    /\ appSettingsResp' = EmptyMap

\* entry of Update, Read and Delete: parseAzureResourceID(d.Id()) and its error return
EnterWithID(handler, dd, first) ==
    /\ Invoke(handler, dd)
    /\ IF ParsesAsResourceID(dd.id)
       THEN /\ pc' = first
            /\ result' = NoResult
       ELSE /\ pc' = "returned"
            /\ result' = [op |-> handler, err |-> LocalErr("Cannot parse Azure ID", dd.id)]

----------------------------------------------------------------------------
(* resourceArmFunctionAppCreate *)

BeginCreate(cfg) ==
    /\ pc = "idle"
    /\ d.id = ""
    /\ Invoke("Create", [id |-> "", cfg |-> cfg, old |-> ZeroState])
    /\ pc' = "Create.CheckNameAvailability"
    /\ result' = NoResult
    /\ UNCHANGED <<remote, csVars>>

\* a plausible slip: the NameAvailable flag of the answer is not looked at
NameAvailabilityError_flagIgnored(name, err, available) ==
    IF err # NoErr
    THEN Errorf("Error checking if the name was available", name, err)
    ELSE NoErr

\* what Create returns after the availability check (NoErr: it goes on)
NameAvailabilityError(name, err, available) ==
    IF err # NoErr
    THEN Errorf("Error checking if the name was available", name, err)
    ELSE IF ~available
         THEN LocalErr("The name used for the Function App needs to be globally unique and isn't available", name)
         ELSE NoErr

\* the name is taken when the site exists; another tenant may hold it too
CreateCheckNameAvailability(s, available) ==
    /\ pc = "Create.CheckNameAvailability"
    /\ s \in {200, 500}
    /\ (s = 200 /\ remote.exists) => ~available
    /\ s = 500 => ~available
    /\ LET name == d.cfg.name
           e == NameAvailabilityError(name, CallErr("CheckNameAvailability", s), available)
       IN /\ calls' = Append(calls, Call("CheckNameAvailability", name, s, available))
          /\ IF e # NoErr
             THEN Return(e)
             ELSE /\ pc' = "Create.CreateOrUpdate"
                  /\ UNCHANGED <<result, appSettingsResp>>
    /\ UNCHANGED <<d, remote, op, entry, csVars>>

\* the site envelope of Create, as far as the handlers look at it
SiteEnvelope(cfg) ==
    [AppSettings |-> getBasicFunctionAppAppSettings(cfg),
     SiteConfig |-> expandFunctionAppSiteConfig(cfg)]

\* Create returns the error of create-or-update, of the wait and of the get as it is
CreateCallError(err) == err

CreateCreateOrUpdate(s) ==
    /\ pc = "Create.CreateOrUpdate"
    /\ s \in {200, 500}
    /\ LET e == CreateCallError(CallErr("CreateOrUpdate", s))
       IN /\ calls' = Append(calls, Call("CreateOrUpdate", SiteEnvelope(d.cfg), s, << >>))
          /\ IF e # NoErr
             THEN Return(e)
             ELSE /\ pc' = "Create.WaitForCompletion"
                  /\ UNCHANGED <<result, appSettingsResp>>
    /\ UNCHANGED <<d, remote, op, entry, csVars>>

CreateWaitForCompletion(s) ==
    /\ pc = "Create.WaitForCompletion"
    /\ s \in {200, 500}
    /\ LET e == CreateCallError(CallErr("WaitForCompletion", s))
       IN /\ calls' = Append(calls, Call("WaitForCompletion", << >>, s, << >>))
          /\ IF e # NoErr
             THEN /\ Return(e)
                  /\ UNCHANGED remote
             ELSE /\ remote' = CreatedSite(calls[Len(calls)].arg)
                  /\ pc' = "Create.Get"
                  /\ UNCHANGED <<result, appSettingsResp>>
    /\ UNCHANGED <<d, op, entry, csVars>>

\* Create after client.Get: error returns, else d.SetId(*read.ID)
CreateGetOutcome(dd, name, err, hasID) ==
    IF err # NoErr THEN [d |-> dd, err |-> CreateCallError(err)]
    ELSE IF ~hasID THEN [d |-> dd, err |-> LocalErr("Cannot read Function App ID", name)]
    ELSE [d |-> [dd EXCEPT !.id = SiteID], err |-> NoErr]

\* on success Create goes on into resourceArmFunctionAppUpdate, whose first
\* statement parses the identity just set
CreateGet(s, hasID) ==
    /\ pc = "Create.Get"
    /\ s \in SiteStatuses
    /\ s # 200 => hasID
    /\ LET out == CreateGetOutcome(d, d.cfg.name, CallErr("Get", s), hasID)
       IN /\ calls' = Append(calls, Call("Get", << >>, s, hasID))
          /\ d' = out.d
          /\ IF out.err # NoErr
             THEN Return(out.err)
             ELSE IF ParsesAsResourceID(out.d.id)
                  THEN /\ pc' = "Update.ApplicationSettings"
                       /\ UNCHANGED <<result, appSettingsResp>>
                  ELSE Return(LocalErr("Cannot parse Azure ID", out.d.id))
    /\ UNCHANGED <<remote, op, entry, csVars>>

----------------------------------------------------------------------------
(* resourceArmFunctionAppUpdate *)

\* site_config and connection_string are Optional and Computed: a configuration
\* that leaves one out keeps the value of the prior state
PlannedConfig(cfg, old) ==
    [cfg EXCEPT !.site_config = IF cfg.site_config = << >> THEN old.site_config ELSE @,
                !.connection_string = IF cfg.connection_string = << >> THEN old.connection_string ELSE @]

\* the framework applies a changed configuration to a resource it holds.
\* name and storage_connection_string force a replacement and keep their value.
BeginUpdate(cfg) ==
    /\ pc = "idle"
    /\ d.id # ""
    /\ EnterWithID("Update", [d EXCEPT !.cfg = PlannedConfig(cfg, d.old)], "Update.ApplicationSettings")
    /\ UNCHANGED <<remote, csVars>>

\* a plausible slip: a change of version alone does not send the settings
AppSettingsChanged_versionForgotten(dd) == HasChange(dd, "app_settings")

AppSettingsChanged(dd) == HasChange(dd, "app_settings") \/ HasChange(dd, "version")

SiteConfigChanged(dd) == HasChange(dd, "site_config")

ConnectionStringChanged(dd) == HasChange(dd, "connection_string")

\* a plausible slip: the error of an update call is dropped and Update goes on
UpdateCallError_dropped(msg, name, err) == NoErr

\* if err != nil { return fmt.Errorf(msg, name, err) } after each update call
UpdateCallError(msg, name, err) ==
    IF err # NoErr THEN Errorf(msg, name, err) ELSE NoErr

\* one guarded update call: skipped when nothing changed, else issued once
UpdateStep(here, changed, call, payload, msg, s, applied, next) ==
    /\ pc = here
    /\ IF ~changed
       THEN /\ s = 200
            /\ pc' = next
            /\ UNCHANGED <<remote, calls, result, appSettingsResp>>
       ELSE /\ s \in SiteStatuses
            /\ calls' = Append(calls, Call(call, payload, s, << >>))
            /\ remote' = IF s = 200 THEN applied ELSE remote
            /\ LET e == UpdateCallError(msg, parseAzureResourceID(d.id).sites, CallErr(call, s))
               IN IF e # NoErr
                  THEN Return(e)
                  ELSE /\ pc' = next
                       /\ UNCHANGED <<result, appSettingsResp>>
    /\ UNCHANGED <<d, op, entry, csVars>>

UpdateApplicationSettings(s) ==
    LET settings == expandFunctionAppAppSettings(d.cfg)
    IN UpdateStep("Update.ApplicationSettings", AppSettingsChanged(d),
                  "UpdateApplicationSettings", settings,
                  "Error updating Application Settings for Function App", s,
                  [remote EXCEPT !.appSettings = settings],
                  "Update.Configuration")

UpdateConfiguration(s) ==
    LET siteConfig == expandFunctionAppSiteConfig(d.cfg)
    IN UpdateStep("Update.Configuration", SiteConfigChanged(d),
                  "CreateOrUpdateConfiguration", siteConfig,
                  "Error updating Configuration for Function App", s,
                  [remote EXCEPT !.siteConfig = ApplySiteConfig(remote.siteConfig, siteConfig)],
                  "Update.ConnectionStrings")

\* Update ends in resourceArmFunctionAppRead, which parses the same identity again
UpdateConnectionStrings(s) ==
    LET connectionStrings == expandFunctionAppConnectionStrings(d.cfg.connection_string)
    IN UpdateStep("Update.ConnectionStrings", ConnectionStringChanged(d),
                  "UpdateConnectionStrings", connectionStrings,
                  "Error updating Connection Strings for App Service", s,
                  [remote EXCEPT !.connStrings = connectionStrings],
                  "Read.Get")

----------------------------------------------------------------------------
(* resourceArmFunctionAppRead *)

\* the framework refreshes a resource it holds
BeginRead ==
    /\ pc = "idle"
    /\ d.id # ""
    /\ EnterWithID("Read", d, "Read.Get")
    /\ UNCHANGED <<remote, csVars>>

\* schema.ImportStatePassthrough: the user's string becomes the identity, then Read runs
BeginImport(id) ==
    /\ pc = "idle"
    /\ d.id = ""
    /\ EnterWithID("Import", [id |-> id, cfg |-> ZeroState, old |-> ZeroState], "Read.Get")
    /\ UNCHANGED <<remote, csVars>>

\* a plausible slip: a site that is gone is reported like any other failure
ReadGetFailure_notFoundIsError(dd, name, err) ==
    [d |-> dd, err |-> Errorf("Error making Read request on AzureRM Function App", name, err)]

\* Read after a failed client.Get
ReadGetFailure(dd, name, err) ==
    IF ResponseWasNotFound(err.status)
    THEN [d |-> [dd EXCEPT !.id = ""], err |-> NoErr]
    ELSE [d |-> dd, err |-> Errorf("Error making Read request on AzureRM Function App", name, err)]

\* if err != nil { return fmt.Errorf(msg, name, err) } after the list and configuration calls
ReadCallError(msg, name, err) ==
    IF err # NoErr THEN Errorf(msg, name, err) ELSE NoErr

ReadGet(s) ==
    /\ pc = "Read.Get"
    /\ s \in SiteStatuses
    /\ calls' = Append(calls, Call("Get", << >>, s, s = 200))
    /\ IF s # 200
       THEN LET out == ReadGetFailure(d, parseAzureResourceID(d.id).sites, CallErr("Get", s))
            IN /\ d' = out.d
               /\ Return(out.err)
       ELSE /\ pc' = "Read.ListApplicationSettings"
            /\ UNCHANGED <<d, result, appSettingsResp>>
    /\ UNCHANGED <<remote, op, entry, csVars>>

ReadListApplicationSettings(s) ==
    /\ pc = "Read.ListApplicationSettings"
    /\ s \in SiteStatuses
    /\ calls' = Append(calls, Call("ListApplicationSettings", << >>, s, << >>))
    /\ LET e == ReadCallError("Error making Read request on AzureRM Function App AppSettings",
                              parseAzureResourceID(d.id).sites, CallErr("ListApplicationSettings", s))
       IN IF e # NoErr
          THEN Return(e)
          ELSE /\ pc' = "Read.ListConnectionStrings"
               /\ appSettingsResp' = remote.appSettings
               /\ UNCHANGED result
    /\ UNCHANGED <<d, remote, op, entry, csVars>>

\* the d.Set calls of Read between the listings and the configuration call
ReadSetAttributes(dd, name, listing, connectionString) ==
    LET appSettings == flattenAppServiceAppSettings(listing)
    IN [dd EXCEPT !.cfg.name = name,
                  !.cfg.storage_connection_string = MapGet(appSettings, "AzureWebJobsStorage"),
                  !.cfg.version = MapGet(appSettings, "FUNCTIONS_EXTENSION_VERSION"),
                  !.cfg.app_settings = StripImplicitAppSettings(appSettings),
                  !.cfg.connection_string = connectionString]

ReadListConnectionStrings(s, flat) ==
    /\ pc = "Read.ListConnectionStrings"
    /\ s \in SiteStatuses
    /\ calls' = Append(calls, Call("ListConnectionStrings", << >>, s, << >>))
    /\ LET e == ReadCallError("Error making Read request on AzureRM Function App ConnectionStrings",
                              parseAzureResourceID(d.id).sites, CallErr("ListConnectionStrings", s))
       IN IF e # NoErr
          THEN /\ flat = << >>
               /\ Return(e)
               /\ UNCHANGED d
          ELSE /\ flat \in flattenFunctionAppConnectionStrings(remote.connStrings)
               /\ d' = ReadSetAttributes(d, parseAzureResourceID(d.id).sites, appSettingsResp, flat)
               /\ pc' = "Read.GetConfiguration"
               /\ UNCHANGED <<result, appSettingsResp>>
    /\ UNCHANGED <<remote, op, entry, csVars>>

ReadGetConfiguration(s) ==
    /\ pc = "Read.GetConfiguration"
    /\ s \in SiteStatuses
    /\ calls' = Append(calls, Call("GetConfiguration", << >>, s, << >>))
    /\ LET e == ReadCallError("Error making Read request on AzureRM Function App Configuration",
                              parseAzureResourceID(d.id).sites, CallErr("GetConfiguration", s))
       IN IF e # NoErr
          THEN /\ Return(e)
               /\ UNCHANGED d
          ELSE /\ d' = [d EXCEPT !.cfg.site_config =
                                    flattenFunctionAppSiteConfig(RemoteSiteConfigResponse(remote))]
               /\ Return(NoErr)
    /\ UNCHANGED <<remote, op, entry, csVars>>

----------------------------------------------------------------------------
(* resourceArmFunctionAppDelete *)

BeginDelete ==
    /\ pc = "idle"
    /\ d.id # ""
    /\ EnterWithID("Delete", d, "Delete.Delete")
    /\ UNCHANGED <<remote, csVars>>

\* a plausible slip: every failure of the delete call is returned
DeleteOutcome_notFoundIsError(err) == err

\* if err != nil { if !utils.ResponseWasNotFound(resp) { return err } }; return nil
DeleteOutcome(err) ==
    IF err # NoErr /\ ~ResponseWasNotFound(err.status) THEN err ELSE NoErr

DeleteCall(s) ==
    /\ pc = "Delete.Delete"
    /\ s \in SiteStatuses
    /\ calls' = Append(calls, Call("Delete", [deleteMetrics |-> TRUE, deleteEmptyServerFarm |-> FALSE], s, << >>))
    /\ remote' = IF s = 200 THEN NoRemote ELSE remote
    /\ Return(DeleteOutcome(CallErr("Delete", s)))
    /\ UNCHANGED <<d, op, entry, csVars>>

----------------------------------------------------------------------------
(* The host framework after a handler returned, and the world outside *)

\* the framework drops the state of a destroyed resource, of a resource
\* without identity and of a failed import, and records what the handler left
FrameworkPersist ==
    /\ pc = "returned"
    /\ pc' = "idle"
    /\ op' = "none"
    /\ d' = IF \/ d.id = ""
               \/ result.op = "Delete" /\ result.err = NoErr
               \/ result.op = "Import" /\ result.err # NoErr
            THEN NoData
            ELSE [d EXCEPT !.old = d.cfg]
    /\ calls' = << >>
    /\ result' = NoResult
    /\ entry' = NoData
    /\ appSettingsResp' = EmptyMap
    /\ UNCHANGED <<remote, csVars>>

\* the site is removed out of band, at any moment
RemoteRemoved ==
    /\ pc # "off"
    /\ remote.exists
    /\ remote' = NoRemote
    /\ UNCHANGED <<d, pc, op, calls, appSettingsResp, result, entry, csVars>>

\* the application settings are edited out of band, between two handler runs
RemoteEdited(settings) ==
    /\ pc = "idle"
    /\ remote.exists
    /\ remote.appSettings # settings
    /\ remote' = [remote EXCEPT !.appSettings = settings]
    /\ UNCHANGED <<d, pc, op, calls, appSettingsResp, result, entry, csVars>>

Next ==
    \/ \E cfg \in Configs : BeginCreate(cfg)
    \/ \E s \in {200, 500}, available \in BOOLEAN : CreateCheckNameAvailability(s, available)
    \/ \E s \in {200, 500} : CreateCreateOrUpdate(s)
    \/ \E s \in {200, 500} : CreateWaitForCompletion(s)
    \/ \E s \in {200, 404, 500}, hasID \in BOOLEAN : CreateGet(s, hasID)
    \/ \E cfg \in Configs : BeginUpdate(cfg)
    \/ \E s \in {200, 404, 500} : UpdateApplicationSettings(s)
    \/ \E s \in {200, 404, 500} : UpdateConfiguration(s)
    \/ \E s \in {200, 404, 500} : UpdateConnectionStrings(s)
    \/ BeginRead
    \/ \E id \in ImportIDs : BeginImport(id)
    \/ \E s \in {200, 404, 500} : ReadGet(s)
    \/ \E s \in {200, 404, 500} : ReadListApplicationSettings(s)
    \/ \E s \in {200, 404, 500}, flat \in {<< >>} \cup flattenFunctionAppConnectionStrings(remote.connStrings) :
           ReadListConnectionStrings(s, flat)
    \/ \E s \in {200, 404, 500} : ReadGetConfiguration(s)
    \/ BeginDelete
    \/ \E s \in {200, 404, 500} : DeleteCall(s)
    \/ FrameworkPersist
    \/ RemoteRemoved
    \/ \E settings \in EditedAppSettings : RemoteEdited(settings)

Spec == Init /\ [][Next]_vars

----------------------------------------------------------------------------
(* The connection-string helpers on their own: a list is drawn, expanded *)
(* into the remote dictionary and flattened back                          *)

ConnLists == UNION { [1..n -> ConnEntries] : n \in 0..MaxConn }

InitCS ==
    /\ d = NoData
    /\ remote = NoRemote
    /\ pc = "off"
    /\ op = "none"
    /\ calls = << >>
    /\ appSettingsResp = EmptyMap
    /\ result = NoResult
    /\ entry = NoData
    /\ csPc = "input"
    /\ csInput \in ConnLists
    /\ csDict = EmptyMap
    /\ csOut = << >>

CsExpand ==
    /\ csPc = "input"
    /\ csDict' = expandFunctionAppConnectionStrings(csInput)
    /\ csPc' = "expanded"
    /\ UNCHANGED <<mainVars, csInput, csOut>>

CsFlatten(flat) ==
    /\ csPc = "expanded"
    /\ flat \in flattenFunctionAppConnectionStrings(csDict)
    /\ csOut' = flat
    /\ csPc' = "flattened"
    /\ UNCHANGED <<mainVars, csInput, csDict>>

NextCS ==
    \/ CsExpand
    \/ \E flat \in flattenFunctionAppConnectionStrings(csDict) : CsFlatten(flat)

SpecCS == InitCS /\ [][NextCS]_vars

----------------------------------------------------------------------------
(* Properties *)

Range(seq) == { seq[i] : i \in 1..Len(seq) }
Count(seq, x) == Cardinality({ i \in 1..Len(seq) : seq[i] = x })
CallCount(name) == Cardinality({ i \in 1..Len(calls) : calls[i].call = name })
AllCallsSucceeded == \A i \in 1..Len(calls) : calls[i].status = 200

\* a handler that ran Read to its end, found the site and returned nil
ReadFoundAndReturnedNil ==
    /\ pc = "returned"
    /\ result.op \in {"Read", "Import", "Update", "Create"}
    /\ result.err = NoErr
    /\ d.id # ""

\* C1: after a Read that found the resource and returned without error, app_settings
\* holds none of the five implicit keys and every other key of the listing with its value
C1_ReadStripsImplicitKeys ==
    ReadFoundAndReturnedNil =>
        /\ DOMAIN d.cfg.app_settings \cap ImplicitKeys = {}
        /\ \A k \in DOMAIN appSettingsResp \ ImplicitKeys :
               k \in DOMAIN d.cfg.app_settings /\ d.cfg.app_settings[k] = appSettingsResp[k]

C1_Witness ==
    /\ ReadFoundAndReturnedNil
    /\ ImplicitKeys \subseteq DOMAIN appSettingsResp
    /\ "EXTRA" \in DOMAIN appSettingsResp
    /\ d.cfg.app_settings = [k \in {"EXTRA"} |-> "edited"]

\* the value the resource derives for an implicit key
DerivedValue(cfg, k) ==
    CASE k = "FUNCTIONS_EXTENSION_VERSION" -> cfg.version
      [] k = "WEBSITE_CONTENTSHARE" -> cfg.name \o "-content"
      [] OTHER -> cfg.storage_connection_string

\* C2: every app-settings payload sent (Create's envelope, every update of the application
\* settings) holds the five implicit keys with their derived values, whatever the user declared
C2_PayloadHoldsImplicitKeys ==
    \A i \in 1..Len(calls) :
        /\ calls[i].call = "CreateOrUpdate" =>
               \A k \in ImplicitKeys :
                   /\ \E j \in 1..Len(calls[i].arg.AppSettings) : calls[i].arg.AppSettings[j].Name = k
                   /\ \A j \in 1..Len(calls[i].arg.AppSettings) :
                          calls[i].arg.AppSettings[j].Name = k =>
                              calls[i].arg.AppSettings[j].Value = DerivedValue(entry.cfg, k)
        /\ calls[i].call = "UpdateApplicationSettings" =>
               \A k \in ImplicitKeys :
                   k \in DOMAIN calls[i].arg /\ calls[i].arg[k] = DerivedValue(entry.cfg, k)

C2_Witness ==
    /\ op = "Update"
    /\ "AzureWebJobsStorage" \in DOMAIN entry.cfg.app_settings
    /\ entry.cfg.app_settings["AzureWebJobsStorage"] # entry.cfg.storage_connection_string
    /\ \E i \in 1..Len(calls) :
           /\ calls[i].call = "UpdateApplicationSettings"
           /\ calls[i].arg["AzureWebJobsStorage"] = entry.cfg.storage_connection_string
           /\ calls[i].arg["FOO"] = "bar"

\* the availability check of the running Create failed or answered "not available"
NameCheckBlocked ==
    /\ op = "Create"
    /\ Len(calls) >= 1
    /\ calls[1].status # 200 \/ ~calls[1].resp

\* C3: when the name-availability check fails or reports the name as unavailable, Create
\* returns an error, issues no further remote call and the identity stays empty
C3_UnavailableNameBlocksCreate ==
    NameCheckBlocked =>
        /\ pc = "returned"
        /\ result.err # NoErr
        /\ Len(calls) = 1
        /\ d.id = ""

C3_Witness ==
    /\ NameCheckBlocked
    /\ calls[1].status = 200
    /\ pc = "returned"
    /\ result.err.kind = "local"

\* the i-th call of the log is the client.Get of Read (Create's own Get is its fourth call)
IsReadGet(i) ==
    /\ calls[i].call = "Get"
    /\ op = "Create" => i > 4

\* the identity Read started with
ReadEntryID == IF op = "Create" THEN SiteID ELSE entry.id

\* C4: a not-found answer to Read's get empties the identity, ends the calls and returns nil;
\* any other failure of it returns an error and leaves the identity as it was
C4_ReadNotFoundClearsIdentity ==
    \A i \in 1..Len(calls) :
        (IsReadGet(i) /\ calls[i].status # 200) =>
            /\ i = Len(calls)
            /\ pc = "returned"
            /\ IF calls[i].status = 404
               THEN d.id = "" /\ result.err = NoErr
               ELSE d.id = ReadEntryID /\ d.id # "" /\ result.err # NoErr

C4_Witness ==
    /\ op = "Read"
    /\ pc = "returned"
    /\ Len(calls) = 1
    /\ calls[1].status = 404
    /\ entry.id = SiteID
    /\ d.id = ""

\* C5: a not-found answer to the delete call makes Delete return nil, so deleting a site
\* that is already gone succeeds; any other failure of the call is returned as an error
C5_DeleteNotFoundIsSuccess ==
    (op = "Delete" /\ pc = "returned" /\ Len(calls) = 1) =>
        /\ calls[1].status \in {200, 404} => result.err = NoErr
        /\ calls[1].status = 500 => result.err = RemoteErr("Delete", 500)

C5_Witness ==
    /\ op = "Delete"
    /\ pc = "returned"
    /\ Len(calls) = 1
    /\ calls[1].status = 404
    /\ ~remote.exists
    /\ result.err = NoErr

SameEntries(a, b) ==
    /\ Len(a) = Len(b)
    /\ \A e \in Range(a) \cup Range(b) : Count(a, e) = Count(b, e)

DistinctNames(l) == \A i, j \in 1..Len(l) : l[i].name = l[j].name => i = j

\* the entries of l that no later entry of the same name follows
LastOfEachName(l) == { l[i] : i \in { k \in 1..Len(l) : \A j \in (k + 1)..Len(l) : l[j].name # l[k].name } }

\* C6 as stated: for every list L, flattening the expansion of L gives exactly the triples of L
C6_RoundTripEveryList ==
    csPc = "flattened" => SameEntries(csOut, csInput)

\* C6: for every list L whose entries have pairwise distinct names, flattening the expansion
\* of L gives, order ignored, exactly the triples of L; of entries that share a name only the
\* last one comes back
C6_RoundTripDistinctNames ==
    csPc = "flattened" =>
        /\ DistinctNames(csInput) => SameEntries(csOut, csInput)
        /\ Range(csOut) = LastOfEachName(csInput)
        /\ DistinctNames(csOut)

C6_Witness ==
    /\ csPc = "flattened"
    /\ Len(csInput) = 2
    /\ csInput[1].name # csInput[2].name
    /\ csInput[1].type # csInput[2].type
    /\ csOut = <<csInput[2], csInput[1]>>

\* Update (on its own or at the end of Create) ran to its end and no remote call failed
UpdateRanWithoutFailure ==
    /\ pc = "returned"
    /\ result.op \in {"Update", "Create"}
    /\ result.err = NoErr
    /\ AllCallsSucceeded

Changed(key) == entry.old[key] # entry.cfg[key]

\* C7: in an Update in which no remote call fails, each targeted update call is issued once
\* when its sub-resource changed and not at all otherwise: application settings iff
\* app_settings or version changed, configuration iff site_config changed, connection
\* strings iff connection_string changed, each whatever the other two did
C7_UpdateCallsFollowChanges ==
    UpdateRanWithoutFailure =>
        /\ CallCount("UpdateApplicationSettings") =
               IF Changed("app_settings") \/ Changed("version") THEN 1 ELSE 0
        /\ CallCount("CreateOrUpdateConfiguration") = IF Changed("site_config") THEN 1 ELSE 0
        /\ CallCount("UpdateConnectionStrings") = IF Changed("connection_string") THEN 1 ELSE 0

C7_Witness ==
    /\ UpdateRanWithoutFailure
    /\ result.op = "Update"
    /\ Changed("version")
    /\ ~Changed("app_settings")
    /\ ~Changed("site_config")
    /\ Changed("connection_string")
    /\ CallCount("UpdateApplicationSettings") = 1
    /\ CallCount("CreateOrUpdateConfiguration") = 0
    /\ CallCount("UpdateConnectionStrings") = 1

UpdateCallNames == {"UpdateApplicationSettings", "CreateOrUpdateConfiguration", "UpdateConnectionStrings"}

UpdateCallRank(name) ==
    CASE name = "UpdateApplicationSettings" -> 1
      [] name = "CreateOrUpdateConfiguration" -> 2
      [] OTHER -> 3

\* what the i-th call of the log changed on the remote side is still there
StillInPlace(i) ==
    CASE calls[i].call = "UpdateApplicationSettings" -> remote.appSettings = calls[i].arg
      [] calls[i].call = "CreateOrUpdateConfiguration" ->
             remote.siteConfig = ApplySiteConfig(remote.siteConfig, calls[i].arg)
      [] OTHER -> remote.connStrings = calls[i].arg

\* C8: the update calls run in the order application settings, configuration, connection
\* strings; when one fails Update returns an error at once: it is the last call of the run
\* (no later update call, no compensating call, no final Read) and what the earlier calls
\* changed on the remote side stays as they left it
C8_UpdateIsNotTransactional ==
    /\ \A i, j \in 1..Len(calls) :
           (i < j /\ calls[i].call \in UpdateCallNames /\ calls[j].call \in UpdateCallNames) =>
               UpdateCallRank(calls[i].call) < UpdateCallRank(calls[j].call)
    /\ \A i \in 1..Len(calls) :
           (calls[i].call \in UpdateCallNames /\ calls[i].status # 200) =>
               /\ i = Len(calls)
               /\ pc = "returned"
               /\ result.err # NoErr
               /\ \A j \in 1..(i - 1) :
                      (calls[j].call \in UpdateCallNames /\ remote.exists) => StillInPlace(j)

C8_Witness ==
    /\ result.op = "Update"
    /\ pc = "returned"
    /\ Len(calls) = 2
    /\ calls[1].call = "UpdateApplicationSettings"
    /\ calls[1].status = 200
    /\ calls[2].call = "CreateOrUpdateConfiguration"
    /\ calls[2].status = 500
    /\ Changed("connection_string")
    /\ remote.exists
    /\ remote.appSettings = calls[1].arg
    /\ result.err.kind = "wrapped"

\* the handler returned an error right after a remote call failed
ReturnedRemoteFailure ==
    /\ pc = "returned"
    /\ result.err # NoErr
    /\ Len(calls) > 0
    /\ calls[Len(calls)].status # 200

\* C9: in every handler the failure of a remote call comes back wrapped with context
\* naming the operation and the resource, never as the bare underlying error
C9_RemoteFailuresAreWrapped ==
    ReturnedRemoteFailure =>
        /\ result.err.kind = "wrapped"
        /\ result.err.name = SiteName
        /\ result.err.msg # ""

\* C10: Create sets the identity only after create-or-update was accepted, its operation
\* completed and the following get returned an ID, and whenever Create returns without
\* error the identity is that ID, also when the site is removed after that get
C10_CreateReturnsWithIdentity ==
    /\ (op = "Create" /\ d.id # "") =>
           /\ Len(calls) >= 4
           /\ \A i \in 2..4 : calls[i].status = 200
           /\ calls[2].call = "CreateOrUpdate"
           /\ calls[3].call = "WaitForCompletion"
           /\ calls[4].call = "Get" /\ calls[4].resp
           /\ d.id = SiteID
    /\ (pc = "returned" /\ result.op = "Create" /\ result.err = NoErr) => d.id = SiteID

====
